---- MODULE Spec2Model ----
(***************************************************************************)
(* The draw-step batching and frame-to-frame cache of sf::RenderTarget     *)
(* (src/src/SFML/Graphics/RenderTarget.cpp): raw-vertex draws accumulate   *)
(* into m_currentStep, clearOngoingStep() validates it against m_steps at  *)
(* m_stepsIdx, vertex-buffer draws push an overruled step, flush() replays *)
(* m_steps.                                                                *)
(*                                                                         *)
(* RenderTarget.cpp as given does not compile (line 135 lacks a ';', line  *)
(* 276 names `vertexcount`, the TriangleStrip loop at line 319 has no      *)
(* body).  The model reads the two typos as what they plainly stand for    *)
(* and the TriangleStrip loop as the empty loop it is: it appends nothing. *)
(***************************************************************************)
EXTENDS Integers, Sequences, FiniteSets, TLC

VARIABLES
    m_steps,                \* std::vector<DrawStep>: the cache sequence
    m_stepsIdx,             \* the cursor (0-based, as in the code)
    m_currentStep,          \* the open batch
    contextRenderTargetMap, \* process-wide registry: set of <<context, target>>
    activeContext,          \* the context current on the calling thread
    gl,                     \* the GL object names handed out and released
    glDraws,                \* the draw invocations of the latest flush()
    lastOp,                 \* the operation that led to this state
    nCalls,                 \* number of draw calls so far
    frameCalls,             \* the draw calls of the frame being emitted
    batchOf,                \* per call of this frame: batches closed before its own
    emitted,                \* batches closed into the cache in this frame
    flushed,                \* the same, of the frame the latest flush() ended
    uploads0,               \* gl.uploads when this frame began
    frames,                 \* one record per completed frame (per flush)
    threads,                \* per thread: where it is in an operation on its target
    mutex,                  \* owner of RenderTargetImpl::getMutex(), 0 when free
    shader,                 \* one sf::Shader object and the GL program names
    text,                   \* a string under conversion by sf::encode
    idgen,                  \* getUniqueId(): its static id, who is inside, what it returned
    vertexBuffer            \* one sf::VertexBuffer object and the latest call on it

vars == <<m_steps, m_stepsIdx, m_currentStep, contextRenderTargetMap,
          activeContext, gl,
          glDraws, lastOp, nCalls, frameCalls, batchOf, emitted, flushed,
          uploads0,
          frames, threads, mutex, shader, text, idgen, vertexBuffer>>

\* the objects that no RenderTarget operation touches
sideVars == <<shader, text, idgen, vertexBuffer>>

\* the threads' positions and the lock
threadVars == <<threads, mutex>>

\* everything of this target and of the frame bookkeeping but the registry
targetVars == <<m_steps, m_stepsIdx, m_currentStep, activeContext, gl, glDraws,
                lastOp, nCalls, frameCalls, batchOf, emitted, flushed, uploads0,
                frames>>

----------------------------------------------------------------------------
\* Bounds of the model.

\* largest vertexCount a raw-vertex draw call passes
MaxCount == 5
\* draw calls in one behaviour of Spec
MaxCalls == 2
\* flush() calls in one behaviour of Spec
MaxFlushes == 2
\* draw calls per frame in SpecFrames
MaxFrameCalls == 2
\* frames in one behaviour of SpecFrames
MaxFrames == 2
\* draw calls in the frame that SpecReplay repeats
MaxScript == 3
\* frames in one behaviour of SpecReplay
MaxReplayFrames == 3
\* draw, clear, setActive and context calls in one behaviour of SpecRegistry
MaxRegistryOps == 4
\* operations per thread in one behaviour of SpecThreads
MaxThreadOps == 2
\* loads of the shader in one behaviour of SpecShader
MaxLoads == 3
\* code points in a text of SpecEncode, and conversions it goes through
MaxTextLen == 2
MaxHops == 3
\* targets initialized by the threads of SpecIds
MaxTargets == 6
\* calls on the vertex buffer of SpecVertexBuffer, and the vertex counts and
\* offsets passed to them
MaxBufferOps == 3
MaxVertices == 4

----------------------------------------------------------------------------
\* Values.

\* scalars per packed vertex: x y r g b a s t
Stride == 8

PrimitiveTypes ==
    {"Points", "Lines", "LineStrip", "Triangles", "TriangleStrip", "TriangleFan"}

\* RenderStates::Default: BlendAlpha, identity transform, no texture, no shader.
\* A transform is a translation along x; textures and shaders are addresses.
RenderStatesDefault ==
    [blendMode |-> "BlendAlpha", transform |-> 0, texture |-> 0, shader |-> 0]

\* StepState(ptype, rstates)
StepState(ptype, rstates) ==
    [type |-> ptype, blendMode |-> rstates.blendMode,
     texture |-> rstates.texture, shader |-> rstates.shader]

\* StepState::operator==
StepStateEq(a, b) ==
    /\ a.type = b.type
    /\ a.blendMode = b.blendMode
    /\ a.texture = b.texture
    /\ a.shader = b.shader

AlwaysDiffers(a, b) == TRUE

\* StepState::operator!=
StepStateNe(a, b) == ~StepStateEq(a, b)

\* DrawStep::DrawStep()
DrawStepDefault ==
    [state |-> StepState("Points", RenderStatesDefault),
     vertices |-> <<>>, elements |-> <<>>,
     vbo |-> 0, vao |-> 0, ebo |-> 0, overruled |-> FALSE]

MinCountAlwaysOne(type) == 1

\* RenderTargetImpl::minVertexCount
minVertexCount(type) ==
    CASE type = "Points" -> 1
      [] type \in {"Lines", "LineStrip"} -> 2
      [] type \in {"Triangles", "TriangleStrip", "TriangleFan"} -> 3

\* The i-th input vertex (0-based) of a caller's array: position (i, 0), opaque
\* white, texture coordinates (0, 0).
InputVertex(i) ==
    [x |-> i, y |-> 0, r |-> 255, g |-> 255, b |-> 255, a |-> 255, s |-> 0, t |-> 0]

\* the array a caller passes with vertexCount = n
VertexArray(n) == [i \in 1..n |-> InputVertex(i - 1)]

\* The eight scalars one loop iteration appends for vertices[i]: the position
\* transformed by states.transform, the colour channels divided by 255, the
\* texture coordinates as they are.
PackVertex(states, v) ==
    <<v.x + states.transform, v.y,
      v.r \div 255, v.g \div 255, v.b \div 255, v.a \div 255,
      v.s, v.t>>

----------------------------------------------------------------------------
\* GL object names.  glGenBuffers and glGenVertexArrays hand out names never
\* handed out before; glDelete* calls are logged in call order.

GlInit == [nextBuffer |-> 1, nextVertexArray |-> 1, deleted |-> <<>>, uploads |-> 0]

\* DrawStep::~DrawStep(): releases each handle that is not zero.
Destroy(step, g) ==
    LET d1 == IF step.vbo # 0 THEN <<<<"buffer", step.vbo>>>> ELSE <<>>
        d2 == IF step.ebo # 0 THEN <<<<"buffer", step.ebo>>>> ELSE <<>>
        d3 == IF step.vao # 0 THEN <<<<"vertexArray", step.vao>>>> ELSE <<>>
    IN  [g EXCEPT !.deleted = @ \o d1 \o d2 \o d3]

RECURSIVE DestroyAll(_, _)
DestroyAll(steps, g) ==
    IF steps = <<>> THEN g ELSE DestroyAll(Tail(steps), Destroy(Head(steps), g))

MovedFromKeepingHandles(right) == right

\* DrawStep(DrawStep&& right) and operator=(DrawStep&& right): what `right` is
\* left as once its fields were taken
MovedFrom(right) == [right EXCEPT !.vbo = 0, !.ebo = 0, !.vao = 0]

\* m_steps.emplace_back(std::move(step)): the storage is reallocated, every
\* entry is move-constructed into the new storage and the moved-from entry of
\* the old storage is destroyed; then step is move-constructed at the end.
\* (When the capacity suffices nothing is destroyed; destroying a moved-from
\* entry releases nothing, so the two outcomes are the same.)
EmplaceBack(steps, step, g) ==
    [steps |-> Append(steps, step),
     gl |-> DestroyAll([i \in 1..Len(steps) |-> MovedFrom(steps[i])], g),
     source |-> MovedFrom(step)]

\* DrawStep::upload(): fresh vbo, ebo and vao, then both buffers are filled.
upload(step, g) ==
    LET d1 == IF step.vbo # 0 THEN <<<<"buffer", step.vbo>>>> ELSE <<>>
        d2 == IF step.ebo # 0 THEN <<<<"buffer", step.ebo>>>> ELSE <<>>
        d3 == IF step.vao # 0 THEN <<<<"vertexArray", step.vao>>>> ELSE <<>>
    IN  [step |-> [step EXCEPT !.vbo = g.nextBuffer,
                               !.ebo = g.nextBuffer + 1,
                               !.vao = g.nextVertexArray],
         gl |-> [nextBuffer |-> g.nextBuffer + 2,
                 nextVertexArray |-> g.nextVertexArray + 1,
                 deleted |-> g.deleted \o d1 \o d2 \o d3,
                 uploads |-> g.uploads + 1]]

----------------------------------------------------------------------------
\* clearOngoingStep().  M is [steps, idx, cur, gl]; the result adds what the
\* call did: hit (the entry at the cursor was kept), pushed (cur was uploaded
\* and appended).

\* if (m_currentStep.vertices.size() && m_currentStep.elements.size())
HasGeometry(step) == Len(step.vertices) # 0 /\ Len(step.elements) # 0

SameStepByState(entry, cur) == StepStateEq(entry.state, cur.state)

\* the comparison of the entry at the cursor with the open batch
SameStep(entry, cur) ==
    /\ StepStateEq(entry.state, cur.state)
    /\ entry.vertices = cur.vertices
    /\ entry.elements = cur.elements

NoSkip(steps, idx) == idx

SkipPastEnd(steps, idx) == idx + 1

RECURSIVE SkipOverruled(_, _)
\* while (m_steps.size() > m_stepsIdx && m_steps[m_stepsIdx].overruled) m_stepsIdx++
SkipOverruled(steps, idx) ==
    IF Len(steps) > idx /\ steps[idx + 1].overruled
    THEN SkipOverruled(steps, idx + 1)
    ELSE idx

PushStepKeepingCurrent(M) ==
    IF HasGeometry(M.cur)
    THEN LET u == upload(M.cur, M.gl)
             e == EmplaceBack(M.steps, u.step, u.gl)
         IN  [steps |-> e.steps, idx |-> M.idx + 1,
              cur |-> e.source,
              gl |-> e.gl, hit |-> M.hit, pushed |-> TRUE]
    ELSE [M EXCEPT !.pushed = FALSE]

\* the second if of clearOngoingStep: upload the open batch, move it to the
\* end of m_steps, reset it, advance the cursor
PushStep(M) ==
    IF HasGeometry(M.cur)
    THEN LET u == upload(M.cur, M.gl)
             e == EmplaceBack(M.steps, u.step, u.gl)
         IN  [steps |-> e.steps, idx |-> M.idx + 1,
              cur |-> DrawStepDefault, gl |-> e.gl, hit |-> M.hit, pushed |-> TRUE]
    ELSE [M EXCEPT !.pushed = FALSE]

\* the first if of clearOngoingStep: keep the entry at the cursor, or erase
\* the entries from the cursor on
ValidateStep(M) ==
    IF Len(M.steps) > M.idx
    THEN IF SameStep(M.steps[M.idx + 1], M.cur)
         THEN [steps |-> M.steps,
               idx |-> SkipOverruled(M.steps, M.idx + 1),
               cur |-> DrawStepDefault, gl |-> M.gl, hit |-> TRUE, pushed |-> FALSE]
         ELSE IF HasGeometry(M.cur)
              THEN [steps |-> SubSeq(M.steps, 1, M.idx), idx |-> M.idx,
                    cur |-> M.cur,
                    gl |-> DestroyAll(SubSeq(M.steps, M.idx + 1, Len(M.steps)), M.gl),
                    hit |-> FALSE, pushed |-> FALSE]
              ELSE [M EXCEPT !.hit = FALSE, !.pushed = FALSE]
    ELSE [M EXCEPT !.hit = FALSE, !.pushed = FALSE]

ClearAndTruncate(M) ==
    LET R == PushStep(ValidateStep(M))
    IN  [R EXCEPT !.steps = SubSeq(R.steps, 1, R.idx)]

clearOngoingStep(M) == PushStep(ValidateStep(M))

Machine ==
    [steps |-> m_steps, idx |-> m_stepsIdx, cur |-> m_currentStep, gl |-> gl,
     hit |-> FALSE, pushed |-> FALSE]

----------------------------------------------------------------------------
\* RenderTarget::draw(const Vertex*, vertexCount, type, states)

CallRelativeElements(elements, n, i) == Append(elements, i)

\* Points, Lines, Triangles loop body, before the vertex is appended: n is
\* verts.size() / 8
ListElements(elements, n, i) == Append(elements, n)

LineStripJoined(elements, n, i) ==
    IF i > 0 \/ n > 0 THEN elements \o <<n - 1, n>> ELSE elements

LineStripPairsFromFirst(elements, n, i) == elements \o <<n - 1, n>>

\* LineStrip loop body, before the vertex is appended: n is verts.size() / 8
LineStripElements(elements, n, i) ==
    IF i > 0 THEN elements \o <<n - 1, n>> ELSE elements

FanRootAtBatchStart(elements, root, n, i) ==
    IF i > 2 THEN elements \o <<0, n - 1, n>> ELSE elements

\* TriangleFan loop body, before the vertex is appended
TriangleFanElements(elements, root, n, i) ==
    IF i > 2 THEN elements \o <<root, n - 1, n>> ELSE elements

RECURSIVE AppendLoop(_, _, _, _, _, _)
\* The loop over the input vertices selected by `type` (i is 0-based): each
\* iteration appends the indices of its branch, then the packed vertex.
AppendLoop(type, states, vertices, root, i, acc) ==
    IF i >= Len(vertices)
    THEN acc
    ELSE LET n == Len(acc.vertices) \div Stride
             el == CASE type \in {"Points", "Lines", "Triangles"} ->
                            ListElements(acc.elements, n, i)
                     [] type = "LineStrip" ->
                            LineStripElements(acc.elements, n, i)
                     [] type = "TriangleFan" ->
                            TriangleFanElements(acc.elements, root, n, i)
         IN  AppendLoop(type, states, vertices, root, i + 1,
                        [vertices |-> acc.vertices \o PackVertex(states, vertices[i + 1]),
                         elements |-> el])

\* The branches of lines 283-343.  The TriangleStrip loop has no body.
AppendGeometry(cur, type, states, vertices) ==
    IF type = "TriangleStrip"
    THEN cur
    ELSE LET acc == AppendLoop(type, states, vertices,
                               Len(cur.vertices) \div Stride, 0,
                               [vertices |-> cur.vertices, elements |-> cur.elements])
         IN  [cur EXCEPT !.vertices = acc.vertices, !.elements = acc.elements]

\* new_type: LineStrip becomes Lines; for the two triangle topologies line 264
\* compares (new_type == Triangles) and assigns nothing.
NewType(type) == IF type = "LineStrip" THEN "Lines" ELSE type

\* "Nothing to draw?"
NothingToDraw(c) == c.isNull \/ c.vertexCount < minVertexCount(c.type)

\* The body of draw() once the target is active.  The result adds split (the
\* open batch was closed and given the new state) and base (the vertices in
\* the open batch when the loop started).
drawVertices(M, c) ==
    LET new_state == StepState(NewType(c.type), c.states)
        differs == StepStateNe(M.cur.state, new_state)
        C == IF differs
             THEN LET R == clearOngoingStep(M)
                  IN  [R EXCEPT !.cur.state = new_state]
             ELSE M
    IN  [steps |-> C.steps, idx |-> C.idx,
         cur |-> AppendGeometry(C.cur, c.type, c.states, VertexArray(c.vertexCount)),
         gl |-> C.gl, hit |-> C.hit, pushed |-> C.pushed,
         split |-> differs, base |-> Len(C.cur.vertices) \div Stride,
         baseElements |-> Len(C.cur.elements)]

----------------------------------------------------------------------------
\* RenderTarget::draw(const VertexBuffer&, firstVertex, vertexCount, states)

\* A vertex buffer as the target sees it: getNativeHandle(), getVertexCount(),
\* getPrimitiveType().
VertexBuffers ==
    { [handle |-> 0, size |-> 0, type |-> "Points"],
      [handle |-> 101, size |-> 4, type |-> "Triangles"] }

CountAsPassed(c) == c.vertexCount

\* std::min(vertexCount, vertexBuffer.getVertexCount() - firstVertex)
ClampCount(c) ==
    IF c.vertexCount < c.buffer.size - c.firstVertex
    THEN c.vertexCount ELSE c.buffer.size - c.firstVertex

\* the two early returns
NothingToDrawVB(c) ==
    \/ c.firstVertex > c.buffer.size
    \/ ClampCount(c) = 0
    \/ c.buffer.handle = 0

\* The body of the buffer draw once the target is active: the open batch is
\* closed, then turned into the overruled step and moved to the end of m_steps.
drawVertexBuffer(M, c) ==
    LET R == clearOngoingStep(M)
        step == [R.cur EXCEPT !.state = StepState(c.buffer.type, c.states),
                              !.vbo = c.buffer.handle,
                              !.overruled = TRUE,
                              !.vertices = @ \o <<c.firstVertex, ClampCount(c)>>]
        e == EmplaceBack(R.steps, step, R.gl)
    IN  [steps |-> e.steps, idx |-> R.idx + 1,
         cur |-> DrawStepDefault, gl |-> e.gl, hit |-> R.hit, pushed |-> R.pushed]

----------------------------------------------------------------------------
\* The active-target registry.

\* this target's m_id: the first getUniqueId()
m_id == 1

\* sf::Context::getActiveContextId()
ActiveContextId == activeContext

\* the targets of the process: this one and one other
Targets == {m_id, m_id + 1}

\* the graphics contexts of the process
Contexts == {1, 2}

\* the threads of SpecThreads: thread t drives target t in context t
Threads == Targets

\* RenderTargetImpl::isActive, with the context that is current on the
\* calling thread
isActiveIn(map, ctx, id) == <<ctx, id>> \in map

\* RenderTargetImpl::isActive
isActive(map, id) == isActiveIn(map, ActiveContextId, id)

SetActiveKeepingOthers(map, id, active) ==
    IF active
    THEN map \cup {<<ActiveContextId, id>>}
    ELSE { e \in map : e[1] # ActiveContextId }

\* RenderTarget::setActive: the map after the call (the call returns true)
setActive(map, id, active) ==
    LET others == { e \in map : e[1] # ActiveContextId }
    IN  IF active THEN others \cup {<<ActiveContextId, id>>} ELSE others

\* the critical section of setActive, with the context that is current on the
\* calling thread
setActiveIn(map, ctx, id, active) ==
    LET others == { e \in map : e[1] # ctx }
    IN  IF active THEN others \cup {<<ctx, id>>} ELSE others

\* isActive(id) || setActive(true), as target `id` evaluates it: always true,
\* and the target is registered
ActivateAs(map, id) == IF isActive(map, id) THEN map ELSE setActive(map, id, TRUE)

\* the same for this target
Activate(map) == ActivateAs(map, m_id)

----------------------------------------------------------------------------
\* flush(): the replay loop.  One entry per glBindVertexArray / glDrawArrays
\* pair: the bound vertex array, the mode modes[step.state.type], first 0,
\* count step.vertices.size() / 8.
GlMode(type) ==
    CASE type = "Points" -> "GL_POINTS"
      [] type = "Lines" -> "GL_LINES"
      [] type = "LineStrip" -> "GL_LINE_STRIP"
      [] type = "Triangles" -> "GL_TRIANGLES"
      [] type = "TriangleStrip" -> "GL_TRIANGLE_STRIP"
      [] type = "TriangleFan" -> "GL_TRIANGLE_FAN"

DrawInvocation(step) ==
    [call |-> "glDrawArrays", vao |-> step.vao, mode |-> GlMode(step.state.type),
     first |-> 0, count |-> Len(step.vertices) \div Stride]

Replay(steps) == [i \in 1..Len(steps) |-> DrawInvocation(steps[i])]

----------------------------------------------------------------------------
\* The calls a caller makes.

RawCall(n, t, rs) ==
    [kind |-> "draw", isNull |-> FALSE, vertexCount |-> n, type |-> t,
     states |-> rs]

\* draw(nullptr, MaxCount, t, rs)
NullCall(t, rs) ==
    [kind |-> "draw", isNull |-> TRUE, vertexCount |-> MaxCount, type |-> t,
     states |-> rs]

BufferCall(b, f, n, rs) ==
    [kind |-> "drawVB", buffer |-> b, firstVertex |-> f, vertexCount |-> n,
     states |-> rs]

WithTexture(rs, tex) == [rs EXCEPT !.texture = tex]
WithTransform(rs, tr) == [rs EXCEPT !.transform = tr]

\* Spec: every topology and count, two textures.
WideStates == {RenderStatesDefault, WithTexture(RenderStatesDefault, 1)}

WideCalls ==
    { RawCall(n, t, rs) : n \in 0..MaxCount, t \in PrimitiveTypes, rs \in WideStates }
        \cup { NullCall("Points", RenderStatesDefault) }

WideBufferCalls ==
    { BufferCall(b, f, n, RenderStatesDefault) :
        b \in { v \in VertexBuffers : v.handle # 0 },
        f \in 0..MaxCount, n \in {0, 2, MaxCount} }
        \cup { BufferCall(b, 0, 2, RenderStatesDefault) :
                  b \in { v \in VertexBuffers : v.handle = 0 } }

\* SpecFrames: three-vertex Triangles and TriangleFan calls, two textures, two
\* transforms, and one buffer draw.
FrameStates ==
    { WithTransform(rs, tr) : rs \in WideStates, tr \in {0, 1} }

FrameCalls ==
    { RawCall(3, t, rs) : t \in {"Triangles", "TriangleFan"}, rs \in FrameStates }

FrameBufferCalls ==
    { BufferCall(b, 0, 2, RenderStatesDefault) :
        b \in { v \in VertexBuffers : v.handle # 0 } }

----------------------------------------------------------------------------
\* Bookkeeping of what each operation did.

Op(kind, call, effective, R) ==
    [kind |-> kind, call |-> call, after |-> lastOp.kind, effective |-> effective,
     split |-> R.split, base |-> R.base, baseElements |-> R.baseElements,
     cursor |-> R.idx, uploads |-> R.gl.uploads - gl.uploads]

NoDetail(M) == [idx |-> M.idx, gl |-> M.gl, split |-> FALSE, base |-> 0, baseElements |-> 0]

\* what one clearOngoingStep() sent to the cache: the entry kept (a hit) or
\* the entry appended (a miss or a new position)
Closed(M, R) ==
    IF R.hit THEN <<[step |-> M.steps[M.idx + 1], hit |-> TRUE]>>
    ELSE IF R.pushed THEN <<[step |-> R.steps[R.idx], hit |-> FALSE]>>
    ELSE <<>>

----------------------------------------------------------------------------
\* The operations.

\* VertexBuffer::VertexBuffer(): no GL buffer, no vertices; no call made yet
VertexBufferInit ==
    [m_buffer |-> 0, m_size |-> 0, ops |-> 0, returned |-> TRUE,
     call |-> [kind |-> "none"]]

\* Shader::Shader(): no program, no bindings; no GL program name handed out
ShaderInit ==
    [m_shaderProgram |-> 0, m_currentTexture |-> -1, m_textures |-> {},
     m_uniforms |-> {}, nextProgram |-> 1, deletedPrograms |-> {},
     loads |-> 0, returned |-> TRUE]

\* no string is under conversion
NoText == [enc |-> "none", units |-> <<>>, source |-> <<>>, wchar |-> 32, hops |-> 0]

\* the state after construction of every object but the string
InitObjects ==
    /\ m_steps = <<>>
    /\ m_stepsIdx = 0
    /\ m_currentStep = DrawStepDefault
    /\ contextRenderTargetMap = {}
    /\ activeContext = 1
    /\ gl = GlInit
    /\ glDraws = <<>>
    /\ lastOp = [kind |-> "init"]
    /\ nCalls = 0
    /\ frameCalls = <<>>
    /\ batchOf = <<>>
    /\ emitted = <<>>
    /\ flushed = <<>>
    /\ uploads0 = 0
    /\ frames = <<>>
    /\ threads = [t \in Threads |->
                     [pc |-> "idle", arg |-> TRUE, opsLeft |-> MaxThreadOps,
                      overlapped |-> FALSE]]
    /\ mutex = 0
    /\ shader = ShaderInit
    /\ idgen = [id |-> 1, pc |-> [t \in Threads |-> "idle"], returned |-> <<>>]
    /\ vertexBuffer = VertexBufferInit

Init ==
    /\ InitObjects
    /\ text = NoText

\* the target has not been destroyed
Alive == lastOp.kind # "destroy"

\* draw(vertices, vertexCount, type, states)
Draw(c) ==
    /\ Alive
    /\ nCalls' = nCalls + 1
    /\ frameCalls' = Append(frameCalls, c)
    /\ UNCHANGED <<glDraws, flushed, uploads0, frames, activeContext>>
    /\ UNCHANGED <<threadVars, sideVars>>
    /\ IF NothingToDraw(c)
       THEN /\ lastOp' = Op("draw", c, FALSE, NoDetail(Machine))
            /\ UNCHANGED <<m_steps, m_stepsIdx, m_currentStep,
                           contextRenderTargetMap, gl, emitted>>
       ELSE LET R == drawVertices(Machine, c)
            IN  /\ contextRenderTargetMap' = Activate(contextRenderTargetMap)
                /\ m_steps' = R.steps
                /\ m_stepsIdx' = R.idx
                /\ m_currentStep' = R.cur
                /\ gl' = R.gl
                /\ emitted' = emitted \o Closed(Machine, R)
                /\ lastOp' = Op("draw", c, TRUE, R)
    /\ batchOf' = Append(batchOf, Len(emitted'))

\* draw(vertexBuffer, firstVertex, vertexCount, states)
DrawVertexBuffer(c) ==
    /\ Alive
    /\ nCalls' = nCalls + 1
    /\ frameCalls' = Append(frameCalls, c)
    /\ UNCHANGED <<glDraws, flushed, uploads0, frames, activeContext>>
    /\ UNCHANGED <<threadVars, sideVars>>
    /\ IF NothingToDrawVB(c)
       THEN /\ lastOp' = Op("drawVB", c, FALSE, NoDetail(Machine))
            /\ UNCHANGED <<m_steps, m_stepsIdx, m_currentStep,
                           contextRenderTargetMap, gl, emitted>>
       ELSE LET C == clearOngoingStep(Machine)
                R == drawVertexBuffer(Machine, c)
            IN  /\ contextRenderTargetMap' = Activate(contextRenderTargetMap)
                /\ m_steps' = R.steps
                /\ m_stepsIdx' = R.idx
                /\ m_currentStep' = R.cur
                /\ gl' = R.gl
                /\ emitted' = emitted \o Closed(Machine, C)
                                 \o <<[step |-> R.steps[Len(R.steps)], hit |-> FALSE]>>

                /\ lastOp' = Op("drawVB", c, TRUE,
                                [NoDetail(R) EXCEPT !.split = TRUE,
                                    !.base = Len(C.cur.vertices) \div Stride])
    /\ batchOf' = Append(batchOf, IF NothingToDrawVB(c) THEN Len(emitted)
                                  ELSE Len(emitted') - 1)

\* flush()
Flush ==
    LET R == clearOngoingStep(Machine)
        done == emitted \o Closed(Machine, R)
    IN  /\ Alive
        /\ m_steps' = R.steps
        /\ m_currentStep' = R.cur
        /\ gl' = R.gl
        /\ m_stepsIdx' = 0
        /\ contextRenderTargetMap' = Activate(contextRenderTargetMap)
        /\ glDraws' = Replay(R.steps)
        /\ lastOp' = Op("flush", [kind |-> "flush"], TRUE, NoDetail(R))
        /\ frames' = Append(frames, [calls |-> frameCalls, batchOf |-> batchOf,
                                     hits |-> [i \in 1..Len(done) |-> done[i].hit],
                                     uploads |-> R.gl.uploads - uploads0,
                                     cursor |-> R.idx, steps |-> R.steps])
        /\ flushed' = done
        /\ frameCalls' = <<>>
        /\ batchOf' = <<>>
        /\ emitted' = <<>>
        /\ uploads0' = R.gl.uploads
        /\ UNCHANGED <<nCalls, activeContext>>
        /\ UNCHANGED <<threadVars, sideVars>>

\* ~RenderTarget(): the body is empty; m_steps and m_currentStep are
\* destroyed as members, each DrawStep by ~DrawStep().  The registry keeps
\* its entry.
DestroyRenderTarget ==
    /\ Alive
    /\ gl' = Destroy(m_currentStep, DestroyAll(m_steps, gl))
    /\ m_steps' = <<>>
    /\ m_currentStep' = DrawStepDefault
    /\ m_stepsIdx' = 0
    /\ lastOp' = Op("destroy", [kind |-> "destroy"], TRUE, NoDetail(Machine))
    /\ UNCHANGED <<contextRenderTargetMap, activeContext, glDraws, nCalls,
                   frameCalls, batchOf, emitted, flushed, uploads0, frames>>
    /\ UNCHANGED <<threadVars, sideVars>>

\* clear(color): activates the target; the cache is not touched
Clear ==
    /\ Alive
    /\ contextRenderTargetMap' = Activate(contextRenderTargetMap)
    /\ lastOp' = Op("clear", [kind |-> "clear"], TRUE, NoDetail(Machine))
    /\ nCalls' = nCalls + 1
    /\ UNCHANGED <<m_steps, m_stepsIdx, m_currentStep, activeContext, gl, glDraws,
                   frameCalls, batchOf, emitted, flushed, uploads0, frames>>
    /\ UNCHANGED <<threadVars, sideVars>>

\* t.setActive(active), for this target or the other one
SetActive(t, active) ==
    /\ t = m_id => Alive
    /\ contextRenderTargetMap' = setActive(contextRenderTargetMap, t, active)
    /\ lastOp' = Op("setActive", [kind |-> "setActive", target |-> t, active |-> active],
                    TRUE, NoDetail(Machine))
    /\ nCalls' = nCalls + 1
    /\ UNCHANGED <<m_steps, m_stepsIdx, m_currentStep, activeContext, gl, glDraws,
                   frameCalls, batchOf, emitted, flushed, uploads0, frames>>
    /\ UNCHANGED <<threadVars, sideVars>>

\* a draw, clear or flush of the other target u that passes its early
\* returns: on the registry it acts as isActive(u) || u.setActive(true)
OtherTargetDraws(u) ==
    /\ contextRenderTargetMap' = ActivateAs(contextRenderTargetMap, u)
    /\ lastOp' = Op("otherDraw", [kind |-> "otherDraw", target |-> u], TRUE,
                    NoDetail(Machine))
    /\ nCalls' = nCalls + 1
    /\ UNCHANGED <<m_steps, m_stepsIdx, m_currentStep, activeContext, gl, glDraws,
                   frameCalls, batchOf, emitted, flushed, uploads0, frames>>
    /\ UNCHANGED <<threadVars, sideVars>>

\* the application makes context c current on the thread
SwitchContext(c) ==
    /\ c # activeContext
    /\ activeContext' = c
    /\ lastOp' = Op("context", [kind |-> "context", context |-> c], TRUE,
                    NoDetail(Machine))
    /\ nCalls' = nCalls + 1
    /\ UNCHANGED <<m_steps, m_stepsIdx, m_currentStep, contextRenderTargetMap, gl,
                   glDraws, frameCalls, batchOf, emitted, flushed, uploads0, frames>>
    /\ UNCHANGED <<threadVars, sideVars>>

----------------------------------------------------------------------------
\* Spec: any two draw calls of any topology and count, two flushes, and the
\* destruction of the target.
Next ==
    \/ \E c \in WideCalls : nCalls < MaxCalls /\ Draw(c)
    \/ \E c \in WideBufferCalls : nCalls < MaxCalls /\ DrawVertexBuffer(c)
    \/ Len(frames) < MaxFlushes /\ Flush
    \/ DestroyRenderTarget

Spec == Init /\ [][Next]_vars

\* SpecFrames: whole frames of up to MaxFrameCalls calls, each ended by flush().
NextFrames ==
    \/ \E c \in FrameCalls :
          Len(frames) < MaxFrames /\ Len(frameCalls) < MaxFrameCalls /\ Draw(c)
    \/ \E c \in FrameBufferCalls :
          Len(frames) < MaxFrames /\ Len(frameCalls) < MaxFrameCalls /\ DrawVertexBuffer(c)
    \/ Len(frames) < MaxFrames /\ Flush
    \/ DestroyRenderTarget

SpecFrames == Init /\ [][NextFrames]_vars

\* SpecReplay: the first frame is any MaxScript calls; every later frame
\* submits the first frame's calls again, in order, and at most one raw-vertex
\* call of it with other vertex data (its transform moved).
Script == frames[1].calls

NextCall == Script[Len(frameCalls) + 1]

Moved(c) == [c EXCEPT !.states.transform = 1 - @]

\* the calls of this frame so far are the script's, none changed
Unchanged == \A i \in 1..Len(frameCalls) : frameCalls[i] = Script[i]

Submit(c) == IF c.kind = "draw" THEN Draw(c) ELSE DrawVertexBuffer(c)

NextReplay ==
    \/ \E c \in FrameCalls :
          Len(frames) = 0 /\ Len(frameCalls) < MaxScript /\ Draw(c)
    \/ \E c \in FrameBufferCalls :
          Len(frames) = 0 /\ Len(frameCalls) < MaxScript /\ DrawVertexBuffer(c)
    \/ /\ Len(frames) \in 1..(MaxReplayFrames - 1)
       /\ Len(frameCalls) < Len(Script)
       /\ Submit(NextCall)
    \/ /\ Len(frames) \in 1..(MaxReplayFrames - 1)
       /\ Len(frameCalls) < Len(Script)
       /\ NextCall.kind = "draw"
       /\ Unchanged
       /\ Draw(Moved(NextCall))
    \/ /\ Len(frames) < MaxReplayFrames
       /\ Len(frames) > 0 => Len(frameCalls) = Len(Script)
       /\ Flush

SpecReplay == Init /\ [][NextReplay]_vars

\* SpecRegistry: two targets and two contexts; this target draws (calls that
\* pass the early returns and calls that do not), clears and flushes, either
\* target is activated or deactivated, the other target draws, and the
\* current context changes.
RegistryCalls ==
    { RawCall(n, "Points", RenderStatesDefault) : n \in {0, 1} }

RegistryBufferCalls ==
    { BufferCall(b, 0, 2, RenderStatesDefault) : b \in VertexBuffers }

NextRegistry ==
    \/ \E c \in RegistryCalls : nCalls < MaxRegistryOps /\ Draw(c)
    \/ \E c \in RegistryBufferCalls : nCalls < MaxRegistryOps /\ DrawVertexBuffer(c)
    \/ Len(frames) < MaxFlushes /\ Flush
    \/ nCalls < MaxRegistryOps /\ Clear
    \/ \E t \in Targets, a \in BOOLEAN : nCalls < MaxRegistryOps /\ SetActive(t, a)
    \/ \E u \in Targets \ {m_id} : nCalls < MaxRegistryOps /\ OtherTargetDraws(u)
    \/ \E c \in Contexts : nCalls < MaxRegistryOps /\ SwitchContext(c)

SpecRegistry == Init /\ [][NextRegistry]_vars

----------------------------------------------------------------------------
\* SpecThreads: two threads, thread t driving target t in context t.  Of an
\* operation only its accesses to the registry are followed: draw, clear and
\* flush evaluate isActive(m_id) || setActive(true); setActive(active) takes
\* the lock, updates the map and releases the lock at the end of its block.

\* thread t calls draw, clear or flush on its target: it enters isActive()
ThreadDraws(t) ==
    /\ threads[t].pc = "idle"
    /\ threads[t].opsLeft > 0
    /\ threads' = [threads EXCEPT ![t].pc = "isActive", ![t].opsLeft = @ - 1,
                                  ![t].overlapped = FALSE]
    /\ UNCHANGED <<contextRenderTargetMap, mutex, targetVars, sideVars>>

\* thread t calls setActive(active) on its target
ThreadCallsSetActive(t, active) ==
    /\ threads[t].pc = "idle"
    /\ threads[t].opsLeft > 0
    /\ threads' = [threads EXCEPT ![t].pc = "lock", ![t].arg = active,
                                  ![t].opsLeft = @ - 1]
    /\ UNCHANGED <<contextRenderTargetMap, mutex, targetVars, sideVars>>

\* isActive() returns: find() and the comparison read the map with no lock
\* held.  A read that overlaps another thread's critical section is a data
\* race; it may return either value.
ThreadIsActive(t) ==
    /\ threads[t].pc = "isActive"
    /\ LET racing == \/ threads[t].overlapped
                      \/ \E u \in Threads \ {t} : threads[u].pc = "locked"
           actual == isActiveIn(contextRenderTargetMap, t, t)
       IN  \E seen \in (IF racing THEN BOOLEAN ELSE {actual}) :
              threads' = [threads EXCEPT ![t].pc = IF seen THEN "idle" ELSE "lock",
                                         ![t].arg = TRUE,
                                         ![t].overlapped = FALSE]
    /\ UNCHANGED <<contextRenderTargetMap, mutex, targetVars, sideVars>>

\* const std::lock_guard lock(RenderTargetImpl::getMutex())
ThreadLocks(t) ==
    /\ threads[t].pc = "lock"
    /\ mutex = 0
    /\ mutex' = t
    /\ threads' = [threads EXCEPT ![t].pc = "locked"]
    /\ UNCHANGED <<contextRenderTargetMap, targetVars, sideVars>>

\* the block of setActive under the lock, and the lock's release
ThreadSetsActive(t) ==
    /\ threads[t].pc = "locked"
    /\ mutex = t
    /\ contextRenderTargetMap' =
          setActiveIn(contextRenderTargetMap, t, t, threads[t].arg)
    /\ mutex' = 0
    /\ threads' = [u \in Threads |->
                      IF u = t THEN [threads[u] EXCEPT !.pc = "idle"]
                      ELSE IF threads[u].pc = "isActive"
                           THEN [threads[u] EXCEPT !.overlapped = TRUE]
                           ELSE threads[u]]
    /\ UNCHANGED <<targetVars, sideVars>>

NextThreads ==
    \/ \E t \in Threads : ThreadDraws(t)
    \/ \E t \in Threads, a \in BOOLEAN : ThreadCallsSetActive(t, a)
    \/ \E t \in Threads : ThreadIsActive(t)
    \/ \E t \in Threads : ThreadLocks(t)
    \/ \E t \in Threads : ThreadSetsActive(t)

SpecThreads == Init /\ [][NextThreads]_vars

----------------------------------------------------------------------------
\* What the claims speak of.

\* the minimum vertex count per requested topology
ClaimedMinimum(type) ==
    IF type = "Points" THEN 1
    ELSE IF type \in {"Lines", "LineStrip"} THEN 2 ELSE 3

\* a raw-vertex call that passes an array of at least the minimum count
Draws(op) ==
    /\ op.kind = "draw"
    /\ ~op.call.isNull
    /\ op.call.vertexCount >= ClaimedMinimum(op.call.type)

\* the packed vertices of a raw-vertex call, in call order
RECURSIVE PackedFrom(_, _)
PackedFrom(c, i) ==
    IF i > c.vertexCount THEN <<>>
    ELSE PackVertex(c.states, VertexArray(c.vertexCount)[i]) \o PackedFrom(c, i + 1)

Packed(c) == PackedFrom(c, 1)

\* the open batch was empty when the latest call began to append
IntoEmptyBatch == lastOp.base = 0 /\ lastOp.baseElements = 0

----------------------------------------------------------------------------
\* C6: a raw-vertex draw call with fewer vertices than the minimum of its
\* topology leaves the open batch, the cache sequence, the cursor and the
\* registry as they were and makes no GL call.
C6_BelowMinimumIsNoOp ==
    [][ (/\ lastOp'.kind = "draw"
         /\ ~lastOp'.call.isNull
         /\ lastOp'.call.vertexCount < ClaimedMinimum(lastOp'.call.type))
        => UNCHANGED <<m_steps, m_stepsIdx, m_currentStep, gl, glDraws,
                       contextRenderTargetMap>> ]_vars

\* a one-vertex Lines call arrived while a batch with geometry was open
C6_Witness ==
    /\ lastOp.kind = "draw"
    /\ ~lastOp.call.isNull
    /\ lastOp.call.type = "Lines"
    /\ lastOp.call.vertexCount = 1
    /\ lastOp.after = "draw"
    /\ Len(m_currentStep.vertices) > 0

\* C9: a LineStrip draw of n >= 2 vertices into an empty batch leaves n packed
\* vertices and the indices (0,1),(1,2),...,(n-2,n-1) in it; four vertices
\* give [0,1,1,2,2,3].
C9_LineStripIndices ==
    (Draws(lastOp) /\ lastOp.call.type = "LineStrip" /\ IntoEmptyBatch)
        => LET n == lastOp.call.vertexCount
           IN  /\ m_currentStep.vertices = Packed(lastOp.call)
               /\ Len(m_currentStep.vertices) = Stride * n
               /\ m_currentStep.elements = [j \in 1..(2 * (n - 1)) |-> j \div 2]
               /\ n = 4 => m_currentStep.elements = <<0, 1, 1, 2, 2, 3>>

\* a four-vertex LineStrip was drawn into the batch opened after another was closed
C9_Witness ==
    /\ Draws(lastOp)
    /\ lastOp.call.type = "LineStrip"
    /\ lastOp.call.vertexCount = 4
    /\ IntoEmptyBatch
    /\ Len(m_steps) = 1
    /\ m_currentStep.elements = <<0, 1, 1, 2, 2, 3>>

\* C10: a TriangleFan draw of n >= 3 vertices into an empty batch leaves n
\* packed vertices and the n-2 triples (0,i-1,i), i = 2..n-1, in it; five
\* vertices give [0,1,2, 0,2,3, 0,3,4] and three give [0,1,2].
C10_TriangleFanIndices ==
    (Draws(lastOp) /\ lastOp.call.type = "TriangleFan" /\ IntoEmptyBatch)
        => LET n == lastOp.call.vertexCount
           IN  /\ m_currentStep.vertices = Packed(lastOp.call)
               /\ m_currentStep.elements =
                     [j \in 1..(3 * (n - 2)) |->
                         IF (j - 1) % 3 = 0 THEN 0
                         ELSE ((j - 1) \div 3) + ((j - 1) % 3)]
               /\ n = 5 => m_currentStep.elements = <<0, 1, 2, 0, 2, 3, 0, 3, 4>>
               /\ n = 3 => m_currentStep.elements = <<0, 1, 2>>

\* C2: a flush() that directly follows a flush() issues the draw invocations
\* the first one issued, in the same order, uploads nothing and leaves the
\* cache sequence as it was.
C2_SecondFlushReplays ==
    [][ (lastOp.kind = "flush" /\ lastOp'.kind = "flush")
        => /\ glDraws' = glDraws
           /\ gl'.uploads = gl.uploads
           /\ m_steps' = m_steps ]_vars

\* two flushes in a row over a cache of two batches
C2_Witness ==
    /\ lastOp.kind = "flush"
    /\ lastOp.after = "flush"
    /\ Len(m_steps) = 2
    /\ Len(glDraws) = 2

\* C7: two consecutive raw-vertex draw calls of one topology and equal blend
\* mode, texture and shader, the first of which began a batch, close nothing
\* and leave one open batch that holds the vertices of both calls in call
\* order and can go to the cache (it has indices); three points then two
\* points make five vertices.
C7_MergeOnEqualState ==
    [][ (/\ Draws(lastOp)
         /\ Draws(lastOp')
         /\ lastOp'.call.type = lastOp.call.type
         /\ lastOp'.call.states.blendMode = lastOp.call.states.blendMode
         /\ lastOp'.call.states.texture = lastOp.call.states.texture
         /\ lastOp'.call.states.shader = lastOp.call.states.shader
         /\ (lastOp.split \/ IntoEmptyBatch))
        => /\ m_steps' = m_steps
           /\ m_stepsIdx' = m_stepsIdx
           /\ m_currentStep'.vertices = Packed(lastOp.call) \o Packed(lastOp'.call)
           /\ Len(m_currentStep'.elements) > 0
           /\ (/\ lastOp.call.type = "Points"
               /\ lastOp.call.vertexCount = 3
               /\ lastOp'.call.vertexCount = 2)
              => Len(m_currentStep'.vertices) = 5 * Stride ]_vars

\* C8: two consecutive raw-vertex Triangles draw calls whose states differ in
\* the texture alone, the first of which began a batch, put the first call's
\* batch at the cursor position with the first call's vertices only, and
\* leave the second call's vertices alone in the open batch.
C8_SplitOnTexture ==
    [][ (/\ Draws(lastOp)
         /\ Draws(lastOp')
         /\ lastOp.call.type = "Triangles"
         /\ lastOp'.call.type = "Triangles"
         /\ lastOp.split
         /\ lastOp'.call.states.texture # lastOp.call.states.texture
         /\ WithTexture(lastOp'.call.states, 0) = WithTexture(lastOp.call.states, 0))
        => /\ Len(m_steps') > m_stepsIdx
           /\ ~m_steps'[m_stepsIdx + 1].overruled
           /\ m_steps'[m_stepsIdx + 1].state = StepState("Triangles", lastOp.call.states)
           /\ m_steps'[m_stepsIdx + 1].vertices = Packed(lastOp.call)
           /\ m_currentStep'.state = StepState("Triangles", lastOp'.call.states)
           /\ m_currentStep'.vertices = Packed(lastOp'.call) ]_vars

----------------------------------------------------------------------------
\* Frames.

RawOnly(calls) == \A i \in 1..Len(calls) : calls[i].kind = "draw"

\* every frame so far submitted the calls of the first one
SameFrames == \A i \in 1..Len(frames) : frames[i].calls = frames[1].calls

\* C1: when every frame so far submitted the same raw-vertex calls, the first
\* frame uploaded each of its batches once and every later frame uploaded
\* nothing, each of its batch closes being a hit.
C1_SteadyStateReuse ==
    (Len(frames) >= 1 /\ RawOnly(frames[1].calls) /\ SameFrames)
        => /\ frames[1].uploads = Len(frames[1].hits)
           /\ \A i \in 2..Len(frames) :
                 /\ frames[i].uploads = 0
                 /\ \A j \in 1..Len(frames[i].hits) : frames[i].hits[j]

\* frame 2 is frame 1 with the vertex data of call j changed
ChangedAt(j) ==
    /\ Len(frames[2].calls) = Len(frames[1].calls)
    /\ frames[2].calls[j] = Moved(frames[1].calls[j])
    /\ \A i \in 1..Len(frames[1].calls) : i # j => frames[2].calls[i] = frames[1].calls[i]

\* C3: when frame 2 repeats the raw-vertex calls of frame 1 except that the
\* vertex data of a call of batch k differs, frame 2 closes as many batches as
\* frame 1, batches 0..k-1 are hits and batch k and every later one is
\* uploaded.
C3_DivergenceTruncation ==
    (Len(frames) >= 2 /\ RawOnly(frames[1].calls))
        => \A j \in 1..Len(frames[1].calls) :
              (ChangedAt(j) /\ frames[1].batchOf[j] < Len(frames[1].hits))
                  => LET k == frames[1].batchOf[j]
                     IN  /\ Len(frames[2].hits) = Len(frames[1].hits)
                         /\ \A i \in 1..Len(frames[2].hits) :
                               frames[2].hits[i] <=> (i <= k)
                         /\ frames[2].uploads = Len(frames[1].hits) - k

\* C4: at the end of a frame whose draw calls emitted at least one batch,
\* what flush() draws is the batches this frame's calls emitted, in emission
\* order, which is the cache up to the frame's final cursor.
C4_FlushDrawsTheFrame ==
    (lastOp.kind = "flush" /\ Len(flushed) > 0)
        => /\ glDraws = [i \in 1..Len(flushed) |-> DrawInvocation(flushed[i].step)]
           /\ glDraws = Replay(SubSeq(m_steps, 1, lastOp.cursor))

\* C5: when flush() has closed the open batch, the cache entries before the
\* cursor are the batches this frame's calls produced, in emission order.
C5_PrefixIsTheFrame ==
    lastOp.kind = "flush"
        => SubSeq(m_steps, 1, lastOp.cursor) = [i \in 1..Len(flushed) |-> flushed[i].step]

----------------------------------------------------------------------------
\* The kind the cache is to store for a requested topology.
ClaimedKind(type) ==
    CASE type = "LineStrip" -> "Lines"
      [] type \in {"TriangleStrip", "TriangleFan"} -> "Triangles"
      [] OTHER -> type

\* C11: every batch that a raw-vertex draw produced has kind Points, Lines or
\* Triangles: each entry of the cache that is not overruled, and the open
\* batch after a raw-vertex draw, which stores LineStrip as Lines and
\* TriangleStrip and TriangleFan as Triangles.
C11_CanonicalKinds ==
    /\ \A i \in 1..Len(m_steps) :
          ~m_steps[i].overruled
              => m_steps[i].state.type \in {"Points", "Lines", "Triangles"}
    /\ (lastOp.kind = "draw" /\ lastOp.effective)
          => m_currentStep.state.type = ClaimedKind(lastOp.call.type)

----------------------------------------------------------------------------
\* the vertices of the buffer from firstVertex on
Remaining(c) == c.buffer.size - c.firstVertex

\* min(count, bufferVertexCount - first)
ClaimedCount(c) ==
    IF c.vertexCount <= Remaining(c) THEN c.vertexCount ELSE Remaining(c)

\* the buffer has no GPU handle, first is beyond the buffer, or the clamped
\* count is zero
ClaimedNoOp(c) ==
    \/ c.buffer.handle = 0
    \/ c.firstVertex > c.buffer.size
    \/ ClaimedCount(c) = 0

\* C12: draw(buffer, first, count) leaves the open batch, the cache sequence
\* and the cursor as they were when the buffer has no handle, when first is
\* greater than the buffer's vertex count or when the clamped count is zero;
\* otherwise the step it appends is overruled, references the buffer, and
\* records first and min(count, bufferVertexCount - first), so that first plus
\* the recorded count stays within the buffer.
C12_BufferDrawClamps ==
    [][ lastOp'.kind = "drawVB"
        => LET c == lastOp'.call
           IN  IF ClaimedNoOp(c)
               THEN UNCHANGED <<m_steps, m_stepsIdx, m_currentStep>>
               ELSE /\ Len(m_steps') > 0
                    /\ LET step == m_steps'[Len(m_steps')]
                           n == Len(step.vertices)
                       IN  /\ step.overruled
                           /\ step.vbo = c.buffer.handle
                           /\ n >= 2
                           /\ step.vertices[n - 1] = c.firstVertex
                           /\ step.vertices[n] = ClaimedCount(c)
                           /\ step.vertices[n - 1] + step.vertices[n] <= c.buffer.size ]_vars

\* a buffer draw asked for more vertices than the buffer holds from first on
C12_Witness ==
    /\ lastOp.kind = "drawVB"
    /\ lastOp.effective
    /\ lastOp.call.firstVertex = 2
    /\ lastOp.call.vertexCount = MaxCount
    /\ lastOp.call.buffer.size = 4
    /\ m_steps[Len(m_steps)].vertices = <<2, 2>>

----------------------------------------------------------------------------
\* C13: a buffer draw closes the open batch first: the vertices that raw-vertex
\* draws accumulated before it are those of a batched entry that precedes the
\* overruled entry the call appends; and a raw-vertex draw that follows a
\* buffer draw starts from an empty batch, whatever its state.
C13_BufferDrawClosesBatch ==
    [][ /\ (/\ lastOp'.kind = "drawVB"
            /\ lastOp'.effective
            /\ Len(m_currentStep.vertices) > 0)
           => LET last == Len(m_steps')
              IN  /\ last > 1
                  /\ m_steps'[last].overruled
                  /\ \E i \in 1..(last - 1) :
                        /\ ~m_steps'[i].overruled
                        /\ m_steps'[i].vertices = m_currentStep.vertices
        /\ (lastOp.kind = "drawVB" /\ lastOp.effective /\ Draws(lastOp'))
           => (lastOp'.base = 0 /\ lastOp'.baseElements = 0) ]_vars

----------------------------------------------------------------------------
\* entry e is the overruled step of buffer draw c
StepOf(e, c) ==
    /\ e.overruled
    /\ e.vbo = c.buffer.handle
    /\ e.state = StepState(c.buffer.type, c.states)
    /\ Len(e.vertices) >= 2
    /\ e.vertices[Len(e.vertices) - 1] = c.firstVertex
    /\ e.vertices[Len(e.vertices)] = ClaimedCount(c)

\* C14: right after a buffer draw that is not a no-op, the cache entry just
\* before the cursor (index cursor-1) is the overruled step of this call, also
\* when the cache holds entries of an earlier frame from the cursor on.
C14_OverruledAtCursor ==
    (lastOp.kind = "drawVB" /\ lastOp.effective)
        => /\ m_stepsIdx \in 1..Len(m_steps)
           /\ StepOf(m_steps[m_stepsIdx], lastOp.call)

----------------------------------------------------------------------------
HasBufferDraw(calls) == \E i \in 1..Len(calls) : calls[i].kind = "drawVB"

\* C15: when every frame so far submitted the calls of the first one, a
\* buffer draw among them, the cache after the flush of each later frame is
\* the cache after the flush of the first: as long, with the same entries in
\* the same order.
C15_BufferDrawsKeepOneSlot ==
    (Len(frames) >= 2 /\ SameFrames /\ HasBufferDraw(frames[1].calls))
        => \A i \in 2..Len(frames) :
              /\ Len(frames[i].steps) = Len(frames[1].steps)
              /\ frames[i].steps = frames[1].steps

----------------------------------------------------------------------------
\* the GL buffer names owned by the application's vertex buffers
ExternalHandles == { b.handle : b \in VertexBuffers } \ {0}

\* C16: the target never releases the GL buffer of an application's vertex
\* buffer, whatever draws, flushes, truncations of the cache or the target's
\* destruction have happened.
C16_ExternalBufferNotReleased ==
    \A i \in 1..Len(gl.deleted) :
        ~(gl.deleted[i][1] = "buffer" /\ gl.deleted[i][2] \in ExternalHandles)

----------------------------------------------------------------------------
\* every DrawStep of the target: the cache entries and the open batch
AllSteps == m_steps \o <<m_currentStep>>

\* how many handle fields of the target's steps hold GL object h
Held(kind, h) ==
    IF kind = "buffer"
    THEN Cardinality({ i \in 1..Len(AllSteps) : AllSteps[i].vbo = h })
            + Cardinality({ i \in 1..Len(AllSteps) : AllSteps[i].ebo = h })
    ELSE Cardinality({ i \in 1..Len(AllSteps) : AllSteps[i].vao = h })

\* how many times GL object h was released
Released(kind, h) ==
    Cardinality({ i \in 1..Len(gl.deleted) : gl.deleted[i] = <<kind, h>> })

\* C17: every buffer and vertex array that upload() allocated is either held
\* by exactly one handle field of exactly one DrawStep and not released, or
\* held by none and released exactly once; the open batch holds none after
\* its move into the cache, and after the target's destruction all are
\* released.
C17_ExclusiveOwnership ==
    /\ \A h \in 1..(gl.nextBuffer - 1) :
          Held("buffer", h) + Released("buffer", h) = 1
    /\ \A h \in 1..(gl.nextVertexArray - 1) :
          Held("vertexArray", h) + Released("vertexArray", h) = 1
    /\ m_currentStep.vbo = 0 /\ m_currentStep.ebo = 0 /\ m_currentStep.vao = 0
    /\ ~Alive => \A h \in 1..(gl.nextBuffer - 1) : Released("buffer", h) = 1

\* two batches were uploaded, the first was evicted by a miss, and the target
\* was destroyed after the flush: six objects released
C17_Witness ==
    /\ lastOp.kind = "destroy"
    /\ lastOp.after = "flush"
    /\ gl.uploads = 2
    /\ Len(frames) = 2
    /\ Len(frames[2].steps) = 1
    /\ Len(gl.deleted) = 6

----------------------------------------------------------------------------
\* C18: flush() closes the open batch (its vertices are those of a cache entry
\* and the open batch is left empty), sets the cursor to 0 and keeps the
\* entries that were before the cursor, and then issues one draw invocation
\* per cache entry, in the order of the cache.
C18_FrameReplay ==
    [][ lastOp'.kind = "flush"
        => /\ Len(m_currentStep'.vertices) = 0
           /\ Len(m_currentStep'.elements) = 0
           /\ Len(m_currentStep.vertices) > 0
                 => \E i \in 1..Len(m_steps') :
                       m_steps'[i].vertices = m_currentStep.vertices
           /\ m_stepsIdx' = 0
           /\ Len(m_steps') >= m_stepsIdx
           /\ SubSeq(m_steps', 1, m_stepsIdx) = SubSeq(m_steps, 1, m_stepsIdx)
           /\ Len(glDraws') = Len(m_steps')
           /\ \A i \in 1..Len(m_steps') :
                 /\ glDraws'[i].vao = m_steps'[i].vao
                 /\ glDraws'[i].mode = GlMode(m_steps'[i].state.type) ]_vars

----------------------------------------------------------------------------
\* C19: the draw invocation that flush() issues for an overruled entry covers
\* the vertex range the entry records: it starts at the entry's first vertex
\* and draws the entry's vertex count.
C19_OverruledReplayRange ==
    lastOp.kind = "flush"
        => \A i \in 1..Len(m_steps) :
              m_steps[i].overruled
                  => LET v == m_steps[i].vertices
                     IN  /\ Len(glDraws) >= i
                         /\ glDraws[i].first = v[Len(v) - 1]
                         /\ glDraws[i].count = v[Len(v)]

----------------------------------------------------------------------------
\* the target that performed the latest operation
Actor(op) ==
    IF op.kind \in {"setActive", "otherDraw"} THEN op.call.target ELSE m_id

\* draw, clear, flush or setActive(true), a draw call counting whether or not
\* it passes its early returns
PerformsAny(op) ==
    \/ op.kind \in {"draw", "drawVB", "flush", "clear", "otherDraw"}
    \/ op.kind = "setActive" /\ op.call.active

\* the same, a draw call counting only when it is not filtered out by its
\* early returns
Performs(op) ==
    /\ PerformsAny(op)
    /\ op.kind \in {"draw", "drawVB"} => op.effective

\* at most one target is registered per context
OnePerContext ==
    \A e1 \in contextRenderTargetMap, e2 \in contextRenderTargetMap :
        e1[1] = e2[1] => e1 = e2

\* the actor of the latest operation is the active target of the current
\* context and no other target is
ActorIsActive ==
    /\ isActive(contextRenderTargetMap, Actor(lastOp))
    /\ \A u \in Targets \ {Actor(lastOp)} : ~isActive(contextRenderTargetMap, u)

\* C20, as stated: at most one target is registered per context, and after a
\* target performs draw (any draw call), clear, flush or setActive(true) in
\* the current context it is the active target there and no other target is.
C20_AnyDrawActivates ==
    /\ OnePerContext
    /\ PerformsAny(lastOp) => ActorIsActive

\* C20: at most one target is registered per context, and after a target
\* performs clear, flush, setActive(true) or a draw that is not filtered out
\* by its early returns, it is the active target of the current context and
\* no other target is.
C20_ActiveTargetRegistry ==
    /\ OnePerContext
    /\ Performs(lastOp) => ActorIsActive

\* this target drew right after the other target had drawn in the same
\* context, while a target is registered in the other context too
C20_Witness ==
    /\ lastOp.kind = "draw"
    /\ lastOp.effective
    /\ lastOp.after = "otherDraw"
    /\ isActive(contextRenderTargetMap, m_id)
    /\ Cardinality(contextRenderTargetMap) = 2

----------------------------------------------------------------------------
\* C21: with two threads each driving a target in its own context, no thread
\* is reading the registry (inside isActive) while another thread is inside
\* the section that modifies it (setActive): the two exclude each other.
C21_RegistryUnderLock ==
    \A a \in Threads, b \in Threads :
        a # b => ~(threads[a].pc = "isActive" /\ threads[b].pc = "locked")

----------------------------------------------------------------------------
\* sf::Shader: loading and the texture bindings.

\* the outcome of compiling one stage given to a load: not given at all
\* (a null source), a source that compiles, a source that does not
StageSources == {"absent", "ok", "bad"}

\* the stages the loadFromMemory overloads pass to compile(): one stage of a
\* given type, vertex and fragment, or all three
Loads ==
    {l \in [vertex : StageSources, geometry : StageSources, fragment : StageSources] :
        LET given == {k \in {"vertex", "geometry", "fragment"} : l[k] # "absent"}
        IN  \/ Cardinality(given) = 1
            \/ given = {"vertex", "fragment"}
            \/ Cardinality(given) = 3}

\* uniform names and what glGetUniformLocation answers for them; -1: the
\* program has no such uniform
UniformNames == {"texture", "mask", "missing"}
glGetUniformLocation(name) ==
    IF name = "texture" THEN 2 ELSE IF name = "mask" THEN 3 ELSE -1

\* addresses of sf::Texture objects
Textures == {1, 2}

\* GL_MAX_COMBINED_TEXTURE_IMAGE_UNITS
getMaxTextureUnits == 16

\* Shader::getUniformLocation: the cached location, or the one asked of GL
\* and then cached
getUniformLocation(s, name) ==
    LET cached == {u \in s.m_uniforms : u.name = name}
        location == IF cached # {} THEN (CHOOSE u \in cached : TRUE).location
                    ELSE glGetUniformLocation(name)
    IN  [location |-> location,
         m_uniforms |-> s.m_uniforms \cup {[name |-> name, location |-> location]}]

\* Shader::compile: the program held is destroyed and the bindings are reset
\* first; then a new program is created, the given stages are compiled and
\* attached, and the program is linked. A stage that fails to compile ends
\* the call (the new program is left allocated); a failed link deletes the
\* new program. Only a successful link stores the new program.
compile(s, l, links) ==
    LET reset == [s EXCEPT !.deletedPrograms =
                               IF s.m_shaderProgram # 0 THEN @ \cup {s.m_shaderProgram} ELSE @,
                           !.m_shaderProgram = 0,
                           !.m_currentTexture = -1,
                           !.m_textures = {},
                           !.m_uniforms = {},
                           !.nextProgram = @ + 1,
                           !.loads = @ + 1]
        shaderProgram == s.nextProgram
        compiled == l.vertex # "bad" /\ l.geometry # "bad" /\ l.fragment # "bad"
    IN  IF ~compiled
        THEN [reset EXCEPT !.returned = FALSE]
        ELSE IF ~links
        THEN [reset EXCEPT !.deletedPrograms = @ \cup {shaderProgram},
                           !.returned = FALSE]
        ELSE [reset EXCEPT !.m_shaderProgram = shaderProgram,
                           !.returned = TRUE]

\* loadFromMemory(...): compile the given sources
LoadFromMemory(l, links) ==
    /\ shader.loads < MaxLoads
    /\ shader' = compile(shader, l, links)
    /\ UNCHANGED <<threadVars, targetVars, contextRenderTargetMap, text, idgen, vertexBuffer>>

\* setUniform(name, texture)
SetUniformTexture(name, texture) ==
    /\ shader.m_shaderProgram # 0
    /\ LET u == getUniformLocation(shader, name)
           used == {b \in shader.m_textures : b.location = u.location}
       IN  shader' =
             IF u.location = -1
             THEN [shader EXCEPT !.m_uniforms = u.m_uniforms]
             ELSE IF used = {} /\ Cardinality(shader.m_textures) + 1 >= getMaxTextureUnits
             THEN [shader EXCEPT !.m_uniforms = u.m_uniforms]
             ELSE [shader EXCEPT !.m_uniforms = u.m_uniforms,
                                 !.m_textures = (@ \ used) \cup
                                     {[location |-> u.location, texture |-> texture]}]
    /\ UNCHANGED <<threadVars, targetVars, contextRenderTargetMap, text, idgen, vertexBuffer>>

\* setUniform(name, CurrentTexture)
SetUniformCurrentTexture(name) ==
    /\ shader.m_shaderProgram # 0
    /\ LET u == getUniformLocation(shader, name)
       IN  shader' = [shader EXCEPT !.m_uniforms = u.m_uniforms,
                                    !.m_currentTexture = u.location]
    /\ UNCHANGED <<threadVars, targetVars, contextRenderTargetMap, text, idgen, vertexBuffer>>

\* SpecShader: up to MaxLoads loads of one Shader, each stage compiling or
\* not and the link succeeding or not, with texture uniforms set in between.
NextShader ==
    \/ \E l \in Loads, links \in BOOLEAN : LoadFromMemory(l, links)
    \/ \E name \in UniformNames, texture \in Textures : SetUniformTexture(name, texture)
    \/ \E name \in UniformNames : SetUniformCurrentTexture(name)

SpecShader == Init /\ [][NextShader]_vars

\* what a caller can observe of the program a Shader holds
Program(s) ==
    [handle |-> s.m_shaderProgram, textures |-> s.m_textures,
     uniforms |-> s.m_uniforms, currentTexture |-> s.m_currentTexture]

\* C22: a load that fails to compile or to link (it returns false) leaves the
\* Shader with the program it held before the call: the same native handle,
\* not deleted, and the same uniform and texture bindings.
C22_FailedLoadKeepsProgram ==
    [][(shader'.loads = shader.loads + 1 /\ ~shader'.returned)
        => /\ Program(shader') = Program(shader)
           /\ shader.m_shaderProgram \notin shader'.deletedPrograms]_vars

----------------------------------------------------------------------------
\* sf::encode: conversions between UTF-8, UTF-16, UTF-32 and wide strings.

\* code points of the strings converted: the ends of the one, two, three and
\* four byte ranges of UTF-8, which are also the two sides of the 16 bit limit
CodePoints == {65, 127, 128, 2047, 2048, 65535, 65536, 1114111}

\* the widths wchar_t has in the builds of the library
WcharBits == {16, 32}

IsSurrogate(u) == u >= 55296 /\ u <= 57343
IsHighSurrogate(u) == u >= 55296 /\ u <= 56319
IsLowSurrogate(u) == u >= 56320 /\ u <= 57343
IsContinuation(b) == b >= 128 /\ b <= 191

\* the result of a conversion that std::wstring_convert could not do: it
\* throws std::range_error and the sf::encode function with it, also when
\* the conversion was the first of two
Thrown == [ok |-> FALSE, units |-> <<>>]
Converted(units) == [ok |-> TRUE, units |-> units]

\* the UTF-8 bytes of one code point
Utf8Bytes(cp) ==
    IF cp < 128 THEN <<cp>>
    ELSE IF cp < 2048 THEN <<192 + (cp \div 64), 128 + (cp % 64)>>
    ELSE IF cp < 65536
    THEN <<224 + (cp \div 4096), 128 + ((cp \div 64) % 64), 128 + (cp % 64)>>
    ELSE <<240 + (cp \div 262144), 128 + ((cp \div 4096) % 64),
           128 + ((cp \div 64) % 64), 128 + (cp % 64)>>

\* the UTF-16 code units of one code point
Utf16Units(cp) ==
    IF cp < 65536 THEN <<cp>>
    ELSE <<55296 + ((cp - 65536) \div 1024), 56320 + ((cp - 65536) % 1024)>>

\* code points to UTF-8; a surrogate or a value above U+10FFFF has no encoding
RECURSIVE ToUtf8(_)
ToUtf8(cps) ==
    IF cps = <<>> THEN Converted(<<>>)
    ELSE IF IsSurrogate(Head(cps)) \/ Head(cps) > 1114111 THEN Thrown
    ELSE LET rest == ToUtf8(Tail(cps))
         IN  IF rest.ok THEN Converted(Utf8Bytes(Head(cps)) \o rest.units) ELSE Thrown

\* the length of the UTF-8 sequence a byte starts, 0 if it starts none
Utf8Length(b) ==
    IF b < 128 THEN 1
    ELSE IF b >= 194 /\ b <= 223 THEN 2
    ELSE IF b >= 224 /\ b <= 239 THEN 3
    ELSE IF b >= 240 /\ b <= 244 THEN 4
    ELSE 0

\* UTF-8 to code points; truncated, overlong and out of range sequences are
\* conversion errors
RECURSIVE FromUtf8(_)
FromUtf8(bytes) ==
    IF bytes = <<>> THEN Converted(<<>>)
    ELSE LET n == Utf8Length(bytes[1])
         IN  IF n = 0 \/ Len(bytes) < n THEN Thrown
             ELSE IF \E k \in 2..n : ~IsContinuation(bytes[k]) THEN Thrown
             ELSE LET cp == IF n = 1 THEN bytes[1]
                            ELSE IF n = 2 THEN (bytes[1] - 192) * 64 + (bytes[2] - 128)
                            ELSE IF n = 3
                            THEN (bytes[1] - 224) * 4096 + (bytes[2] - 128) * 64
                                     + (bytes[3] - 128)
                            ELSE (bytes[1] - 240) * 262144 + (bytes[2] - 128) * 4096
                                     + (bytes[3] - 128) * 64 + (bytes[4] - 128)
                      shortest == Len(Utf8Bytes(cp)) = n
                      rest == FromUtf8(SubSeq(bytes, n + 1, Len(bytes)))
                 IN  IF ~shortest \/ IsSurrogate(cp) \/ cp > 1114111 \/ ~rest.ok
                     THEN Thrown
                     ELSE Converted(<<cp>> \o rest.units)

\* code points to UTF-16
RECURSIVE ToUtf16(_)
ToUtf16(cps) ==
    IF cps = <<>> THEN <<>> ELSE Utf16Units(Head(cps)) \o ToUtf16(Tail(cps))

\* UTF-16 to code points; a surrogate without its pair is a conversion error
RECURSIVE FromUtf16(_)
FromUtf16(units) ==
    IF units = <<>> THEN Converted(<<>>)
    ELSE IF IsHighSurrogate(units[1])
    THEN IF Len(units) < 2 \/ ~IsLowSurrogate(units[2]) THEN Thrown
         ELSE LET rest == FromUtf16(SubSeq(units, 3, Len(units)))
                  cp == 65536 + (units[1] - 55296) * 1024 + (units[2] - 56320)
              IN  IF rest.ok THEN Converted(<<cp>> \o rest.units) ELSE Thrown
    ELSE IF IsLowSurrogate(units[1]) THEN Thrown
    ELSE LET rest == FromUtf16(Tail(units))
         IN  IF rest.ok THEN Converted(<<units[1]>> \o rest.units) ELSE Thrown

\* std::codecvt<char16_t, char, mbstate_t>: UTF-16 <-> UTF-8
codecvt16_to_bytes(units) ==
    LET cps == FromUtf16(units) IN IF cps.ok THEN ToUtf8(cps.units) ELSE Thrown
codecvt16_from_bytes(bytes) ==
    LET cps == FromUtf8(bytes) IN IF cps.ok THEN Converted(ToUtf16(cps.units)) ELSE Thrown

\* std::codecvt<char32_t, char, mbstate_t>: UTF-32 <-> UTF-8
codecvt32_to_bytes(units) == ToUtf8(units)
codecvt32_from_bytes(bytes) == FromUtf8(bytes)

\* std::codecvt_utf8<wchar_t>: UCS-4 <-> UTF-8 where wchar_t has 32 bits,
\* UCS-2 <-> UTF-8 where it has 16: every element is one code point, and a
\* code point above U+FFFF has no element
codecvt_utf8_to_bytes(units, wchar) == ToUtf8(units)
codecvt_utf8_from_bytes(bytes, wchar) ==
    LET cps == FromUtf8(bytes)
    IN  IF ~cps.ok THEN Thrown
        ELSE IF wchar = 16 /\ \E k \in 1..Len(cps.units) : cps.units[k] > 65535
        THEN Thrown
        ELSE cps

\* std::string Utf8(std::u16string), Utf8(std::u32string), Utf8(std::wstring)
Utf8_u16(source) == codecvt16_to_bytes(source)
Utf8_u32(source) == codecvt32_to_bytes(source)
Utf8_w(source, wchar) == codecvt_utf8_to_bytes(source, wchar)

\* std::u16string Utf16(std::string), Utf16(std::u32string), Utf16(std::wstring)
Utf16_s(source) == codecvt16_from_bytes(source)
Utf16_u32(source) ==
    LET bytes == Utf8_u32(source) IN IF bytes.ok THEN Utf16_s(bytes.units) ELSE Thrown
Utf16_w(source, wchar) ==
    LET bytes == Utf8_w(source, wchar) IN IF bytes.ok THEN Utf16_s(bytes.units) ELSE Thrown

\* std::u32string Utf32(std::string), Utf32(std::u16string), Utf32(std::wstring)
Utf32_s(source) == codecvt32_from_bytes(source)
Utf32_u16(source) ==
    LET bytes == Utf8_u16(source) IN IF bytes.ok THEN Utf32_s(bytes.units) ELSE Thrown
Utf32_w(source, wchar) ==
    LET bytes == Utf8_w(source, wchar) IN IF bytes.ok THEN Utf32_s(bytes.units) ELSE Thrown

\* std::wstring Wide(std::string), Wide(std::u16string), Wide(std::u32string)
Wide_s(source, wchar) == codecvt_utf8_from_bytes(source, wchar)
Wide_u16(source, wchar) ==
    LET bytes == Utf8_u16(source)
    IN  IF bytes.ok THEN Wide_s(bytes.units, wchar) ELSE Thrown
Wide_u32(source, wchar) ==
    LET bytes == Utf8_u32(source)
    IN  IF bytes.ok THEN Wide_s(bytes.units, wchar) ELSE Thrown

Encodings == {"utf8", "utf16", "utf32", "wide"}

\* the overload of sf::encode::<to> that takes a string of encoding <from>
Encode(from, to, source, wchar) ==
    IF to = "utf8"
    THEN IF from = "utf16" THEN Utf8_u16(source)
         ELSE IF from = "utf32" THEN Utf8_u32(source)
         ELSE Utf8_w(source, wchar)
    ELSE IF to = "utf16"
    THEN IF from = "utf8" THEN Utf16_s(source)
         ELSE IF from = "utf32" THEN Utf16_u32(source)
         ELSE Utf16_w(source, wchar)
    ELSE IF to = "utf32"
    THEN IF from = "utf8" THEN Utf32_s(source)
         ELSE IF from = "utf16" THEN Utf32_u16(source)
         ELSE Utf32_w(source, wchar)
    ELSE IF from = "utf8" THEN Wide_s(source, wchar)
         ELSE IF from = "utf16" THEN Wide_u16(source, wchar)
         ELSE Wide_u32(source, wchar)

\* the strings of up to MaxTextLen code points
Texts == UNION {[1..n -> CodePoints] : n \in 0..MaxTextLen}

\* a UTF-32 string of any of the texts, in a build of either wchar_t width
InitEncode ==
    /\ InitObjects
    /\ text \in {[enc |-> "utf32", units |-> cps, source |-> cps, wchar |-> w,
                  hops |-> 0] : cps \in Texts, w \in WcharBits}

\* the string is converted to another encoding
Convert(to) ==
    /\ text.enc \in Encodings \ {to}
    /\ text.hops < MaxHops
    /\ LET r == Encode(text.enc, to, text.units, text.wchar)
       IN  text' = [text EXCEPT !.enc = IF r.ok THEN to ELSE "thrown",
                                !.units = r.units,
                                !.hops = @ + 1]
    /\ UNCHANGED <<threadVars, targetVars, contextRenderTargetMap, shader, idgen, vertexBuffer>>

\* SpecEncode: a text is taken through up to MaxHops conversions
NextEncode == \E to \in Encodings : Convert(to)

SpecEncode == InitEncode /\ [][NextEncode]_vars

\* the representation of a code-point sequence in an encoding; a wide string
\* is UTF-32 where wchar_t has 32 bits and UTF-16 where it has 16
Representation(enc, cps, wchar) ==
    IF enc = "utf8" THEN ToUtf8(cps).units
    ELSE IF enc = "utf16" \/ (enc = "wide" /\ wchar = 16) THEN ToUtf16(cps)
    ELSE cps

\* C23: whatever conversions a text went through, the string held is the
\* representation, in its present encoding, of the code points the text
\* started as (no conversion throws), so a conversion to another encoding and
\* back gives the original string.
C23_ConversionsKeepCodePoints ==
    /\ text.enc # "thrown"
    /\ text.enc \in Encodings
           => text.units = Representation(text.enc, text.source, text.wchar)

----------------------------------------------------------------------------
\* the operation closes the open batch: flush, a raw-vertex draw of another
\* state, a buffer draw
Closes(op) ==
    \/ op.kind = "flush"
    \/ op.kind = "draw" /\ op.effective /\ op.split
    \/ op.kind = "drawVB" /\ op.effective

\* the entry at the cursor equals the open batch
HitAtCursor ==
    /\ Len(m_steps) > m_stepsIdx
    /\ SameStep(m_steps[m_stepsIdx + 1], m_currentStep)

\* the number of Overruled entries right after entry number pos
OverruledAfter(steps, pos) ==
    CHOOSE k \in 0..Len(steps) :
        /\ pos + k <= Len(steps)
        /\ \A j \in 1..k : steps[pos + j].overruled
        /\ pos + k = Len(steps) \/ ~steps[pos + k + 1].overruled

\* C24: when an operation closes the open batch and the entry at the cursor
\* has equal state, vertices and indices, nothing is uploaded, the entries of
\* the cache and the GL objects are as before, the open batch restarts empty,
\* and the cursor has advanced by one plus the number of Overruled entries
\* right after the entry (a buffer draw then appends its own entry and steps
\* over it; flush then rewinds the cursor).
C24_CacheHit ==
    [][(Closes(lastOp') /\ HitAtCursor)
        => LET past == m_stepsIdx + 1 + OverruledAfter(m_steps, m_stepsIdx + 1)
           IN  /\ lastOp'.uploads = 0
               /\ gl'.uploads = gl.uploads
               /\ SubSeq(m_steps', 1, Len(m_steps)) = m_steps
               /\ lastOp'.kind = "flush"
                     => /\ m_steps' = m_steps
                        /\ gl' = gl
                        /\ m_currentStep' = DrawStepDefault
                        /\ frames'[Len(frames')].cursor = past
               /\ lastOp'.kind = "draw"
                     => /\ m_steps' = m_steps
                        /\ gl' = gl
                        /\ lastOp'.base = 0 /\ lastOp'.baseElements = 0
                        /\ m_stepsIdx' = past
               /\ lastOp'.kind = "drawVB"
                     => /\ Len(m_steps') = Len(m_steps) + 1
                        /\ m_currentStep' = DrawStepDefault
                        /\ m_stepsIdx' = past + 1]_vars

\* the second frame's batch was found at the cursor and the buffer draw's
\* entry after it was stepped over
C24_Witness ==
    /\ Len(frames) = 2
    /\ lastOp.kind = "flush"
    /\ Len(flushed) = 1 /\ flushed[1].hit
    /\ Len(m_steps) = 2 /\ m_steps[2].overruled
    /\ frames[2].cursor = 2

----------------------------------------------------------------------------
\* the open batch holds vertices, the cursor is inside the cache, and the
\* entry at the cursor is not the open batch
MissAtCursor ==
    /\ Len(m_currentStep.vertices) > 0
    /\ Len(m_steps) > m_stepsIdx
    /\ ~SameStep(m_steps[m_stepsIdx + 1], m_currentStep)

\* the entry holds the batch: its state, its vertices and its indices
EntryOf(entry, batch) ==
    /\ SameStep(entry, batch)
    /\ ~entry.overruled

\* C25: when an operation closes an open batch S that holds vertices while
\* the cursor c is inside the cache and the entry at c differs from S, the
\* entries from c on are removed and S is uploaded once and appended: the
\* first c entries are as before, the entry after them is S, it is the last
\* one (but for the entry a buffer draw then appends), and the cursor is
\* right after it.
C25_CacheMiss ==
    [][(Closes(lastOp') /\ MissAtCursor)
        => LET c == m_stepsIdx
               own == IF lastOp'.kind = "drawVB" THEN 1 ELSE 0
           IN  /\ Len(m_steps') = c + 1 + own
               /\ SubSeq(m_steps', 1, c) = SubSeq(m_steps, 1, c)
               /\ EntryOf(m_steps'[c + 1], m_currentStep)
               /\ gl'.uploads = gl.uploads + 1
               /\ IF lastOp'.kind = "flush"
                  THEN frames'[Len(frames')].cursor = c + 1
                  ELSE m_stepsIdx' = c + 1 + own]_vars

----------------------------------------------------------------------------
\* a raw-vertex draw call that got past the early return
RawDraw(op) == op.kind = "draw" /\ op.effective

\* C26: of two consecutive raw-vertex draw calls the second extends the batch
\* of the first if and only if their canonical primitive kinds are equal and
\* their blend mode, texture and shader are equal; so Triangles followed by
\* TriangleFan, and Lines followed by LineStrip, stay in one batch.
C26_MergeIffCanonicalEqual ==
    [][(RawDraw(lastOp) /\ RawDraw(lastOp'))
        => (~lastOp'.split
              <=> /\ ClaimedKind(lastOp'.call.type) = ClaimedKind(lastOp.call.type)
                  /\ lastOp'.call.states.blendMode = lastOp.call.states.blendMode
                  /\ lastOp'.call.states.texture = lastOp.call.states.texture
                  /\ lastOp'.call.states.shader = lastOp.call.states.shader)]_vars

----------------------------------------------------------------------------
\* the index triple the strip rule gives for vertex i >= 2
StripTriple(i) == IF i % 2 = 0 THEN <<i - 2, i - 1, i>> ELSE <<i - 1, i - 2, i>>

\* C27: a TriangleStrip draw of n >= 3 vertices into an empty batch leaves n
\* packed vertices and n-2 index triples in it, for i = 2..n-1 the triple
\* (i-2, i-1, i) when i is even and (i-1, i-2, i) when i is odd.
C27_TriangleStripIndices ==
    (Draws(lastOp) /\ lastOp.call.type = "TriangleStrip" /\ IntoEmptyBatch)
        => LET n == lastOp.call.vertexCount
           IN  /\ m_currentStep.vertices = Packed(lastOp.call)
               /\ Len(m_currentStep.vertices) = Stride * n
               /\ m_currentStep.elements =
                     [j \in 1..(3 * (n - 2)) |->
                         StripTriple(2 + ((j - 1) \div 3))[1 + ((j - 1) % 3)]]

----------------------------------------------------------------------------
\* the indices the last draw call appended to the open batch
NewElements ==
    SubSeq(m_currentStep.elements, lastOp.baseElements + 1, Len(m_currentStep.elements))

\* the first index of every triple of a sequence of triples
Roots(elements) == {elements[k] : k \in {j \in 1..Len(elements) : j % 3 = 1}}

\* a TriangleFan draw extended a batch that already held vertices
FanExtends ==
    /\ RawDraw(lastOp)
    /\ lastOp.call.type = "TriangleFan"
    /\ lastOp.base > 0

\* C28 as stated: when a TriangleFan draw extends a batch that already holds
\* vertices, the root of the triples it emits is index 0 of the batch.
C28_FanRootIsBatchStart ==
    FanExtends => Roots(NewElements) \subseteq {0}

\* C28: when a TriangleFan draw extends a batch that already holds vertices,
\* the indices it emits are triples whose root is the index of the first
\* vertex of the current call, which is the number of vertices the batch held
\* when the call began.
C28_FanRootIsCallStart ==
    FanExtends
        => /\ Len(NewElements) % 3 = 0
           /\ Roots(NewElements) \subseteq {lastOp.base}

\* a four-vertex TriangleFan was merged into the batch of another one
C28_Witness ==
    /\ FanExtends
    /\ ~lastOp.split
    /\ lastOp.base = 4
    /\ lastOp.call.vertexCount = 4
    /\ NewElements = <<4, 6, 7>>

----------------------------------------------------------------------------
\* the Batched steps: the entries of the cache that are not Overruled, and
\* the open batch
BatchedSteps ==
    {m_steps[i] : i \in {k \in 1..Len(m_steps) : ~m_steps[k].overruled}}
        \cup {m_currentStep}

\* C29: in every Batched step the vertex buffer holds a whole number of
\* 8-scalar vertices and every index is smaller than the number of vertices;
\* and a Points, Lines or Triangles draw gives each vertex it appends the
\* index of the position the vertex takes in the batch, counted over all the
\* calls merged into it.
C29_BatchRelativeIndices ==
    /\ \A s \in BatchedSteps :
          /\ Len(s.vertices) % 8 = 0
          /\ \A k \in 1..Len(s.elements) :
                s.elements[k] >= 0 /\ s.elements[k] < Len(s.vertices) \div 8
    /\ (RawDraw(lastOp) /\ lastOp.call.type \in {"Points", "Lines", "Triangles"})
          => LET n == lastOp.call.vertexCount
             IN  /\ Len(m_currentStep.vertices) = 8 * (lastOp.base + n)
                 /\ NewElements = [k \in 1..n |-> lastOp.base + k - 1]

\* a Triangles draw was merged into a batch of three vertices and its
\* vertices got the indices 3, 4, 5
C29_Witness ==
    /\ RawDraw(lastOp)
    /\ lastOp.call.type = "Triangles"
    /\ ~lastOp.split
    /\ lastOp.base = 3
    /\ m_currentStep.elements = <<0, 1, 2, 3, 4, 5>>
    /\ Len(m_currentStep.vertices) = 48

----------------------------------------------------------------------------
\* the StepState draw() builds for a call (lines 260-266) equals the state of
\* the open batch
CallStateIsOpen(call) ==
    StepStateEq(m_currentStep.state, StepState(NewType(call.type), call.states))

\* b is a with elements added at its end, or a itself
Extends(a, b) == Len(b) >= Len(a) /\ SubSeq(b, 1, Len(a)) = a

\* C30: a raw-vertex draw call whose StepState equals the state of the open
\* batch uploads nothing and allocates and releases no GL object, leaves the
\* cache entries and the cursor as they are, and changes nothing of the open
\* batch except that its vertex and index buffers are extended at the end.
C30_AccumulationIsCpuOnly ==
    [][(RawDraw(lastOp') /\ CallStateIsOpen(lastOp'.call))
        => /\ gl' = gl
           /\ lastOp'.uploads = 0
           /\ m_steps' = m_steps
           /\ m_stepsIdx' = m_stepsIdx
           /\ m_currentStep' = [m_currentStep EXCEPT
                                   !.vertices = m_currentStep'.vertices,
                                   !.elements = m_currentStep'.elements]
           /\ Extends(m_currentStep.vertices, m_currentStep'.vertices)
           /\ Extends(m_currentStep.elements, m_currentStep'.elements)]_vars

\* a two-vertex Lines draw was accumulated into the batch of a three-vertex
\* LineStrip, with nothing uploaded and nothing entered in the cache
C30_Witness ==
    /\ RawDraw(lastOp)
    /\ lastOp.call.type = "Lines"
    /\ lastOp.call.vertexCount = 2
    /\ ~lastOp.split
    /\ lastOp.uploads = 0
    /\ m_steps = <<>>
    /\ m_currentStep.elements = <<0, 1, 1, 2, 3, 4>>
    /\ Len(m_currentStep.vertices) = 5 * Stride

----------------------------------------------------------------------------
\* C31: the draw invocation that flush() issues for a Batched entry draws
\* through the entry's index buffer, with a count equal to the number of
\* indices in it (so n-1 segments for a LineStrip of n vertices and n-2
\* triangles for a TriangleFan of n vertices).
C31_IndexedReplay ==
    lastOp.kind = "flush"
        => \A i \in 1..Len(m_steps) :
              ~m_steps[i].overruled
                  => /\ Len(glDraws) >= i
                     /\ glDraws[i].call = "glDrawElements"
                     /\ glDraws[i].count = Len(m_steps[i].elements)

----------------------------------------------------------------------------
\* C32: whatever the cache and the open batch hold (an empty open batch
\* too), the entry at the cursor equals the open batch only if it is a
\* Batched entry, and every batch closed as a hit was closed on a Batched
\* entry: a hit never occurs against an Overruled entry.
C32_NoHitOnOverruled ==
    /\ HitAtCursor => ~m_steps[m_stepsIdx + 1].overruled
    /\ \A i \in 1..Len(emitted) : emitted[i].hit => ~emitted[i].step.overruled
    /\ \A i \in 1..Len(flushed) : flushed[i].hit => ~flushed[i].step.overruled

\* the second frame had no draw call: its flush closed the empty open batch
\* with the cursor on the Overruled entry of the first frame, which was not
\* taken for a hit and is still in the cache
C32_Witness ==
    /\ Len(frames) = 2
    /\ lastOp.kind = "flush"
    /\ Len(frames[1].steps) >= 1 /\ frames[1].steps[1].overruled
    /\ frames[2].calls = <<>>
    /\ flushed = <<>>
    /\ Len(m_steps) >= 1 /\ m_steps[1].overruled

----------------------------------------------------------------------------
\* C33: every Overruled entry of the cache has an empty index buffer and
\* stores exactly two scalars, and the entry a buffer draw has just appended
\* stores exactly the pair (first vertex, vertex count) of that draw,
\* whatever raw-vertex draws came before it.
C33_OverruledHoldsNoGeometry ==
    /\ \A i \in 1..Len(m_steps) :
          m_steps[i].overruled
              => /\ m_steps[i].elements = <<>>
                 /\ Len(m_steps[i].vertices) = 2
    /\ (lastOp.kind = "drawVB" /\ lastOp.effective)
          => /\ Len(m_steps) > 0
             /\ m_steps[Len(m_steps)].vertices =
                    <<lastOp.call.firstVertex, ClaimedCount(lastOp.call)>>

----------------------------------------------------------------------------
\* the latest frame closed fewer batches than the cache held when it began,
\* and every one of them was found in the cache
ShorterFrameOfHits ==
    /\ lastOp.kind = "flush"
    /\ Len(frames) >= 2
    /\ LET now == frames[Len(frames)]
           before == frames[Len(frames) - 1]
       IN  /\ Len(now.hits) < Len(before.steps)
           /\ \A i \in 1..Len(now.hits) : now.hits[i]

\* C34: when a frame emits fewer batches than the cache holds and each of
\* them is a cache hit, no entry is removed by the frame or by its flush():
\* the cache after the flush is the cache the frame began with, entries
\* beyond the frame's final cursor included.
C34_StaleTailStays ==
    ShorterFrameOfHits
        => LET now == frames[Len(frames)]
               before == frames[Len(frames) - 1]
           IN  /\ m_steps = before.steps
               /\ now.cursor <= Len(m_steps)
               /\ now.uploads = 0
               /\ Len(glDraws) = Len(m_steps)

\* the first frame left two batches in the cache, the second frame emitted
\* only the first of them again, and the second batch is still there
C34_Witness ==
    /\ ShorterFrameOfHits
    /\ Len(frames[2].hits) = 1
    /\ frames[2].cursor = 1
    /\ Len(m_steps) = 2
    /\ ~m_steps[2].overruled

----------------------------------------------------------------------------
\* C35: a batch holds only geometry of raw-vertex draw calls of its own
\* StepState: a call whose StepState differs from that of the open batch
\* starts its batch with no vertex and no index of earlier calls in it (also
\* when the earlier call appended vertices but no indices).
C35_BatchPurity ==
    /\ (RawDraw(lastOp) /\ lastOp.split)
          => /\ lastOp.base = 0
             /\ lastOp.baseElements = 0
    /\ (RawDraw(lastOp) /\ lastOp.split
            /\ lastOp.call.type \in {"Points", "Lines", "Triangles"})
          => m_currentStep.vertices = Packed(lastOp.call)

----------------------------------------------------------------------------
\* C36: in every state reached by raw-vertex draws, buffer draws and flushes
\* the cursor is at most the number of entries of the cache, and so was the
\* cursor each flush() found before rewinding it.
C36_CursorWithinCache ==
    /\ m_stepsIdx >= 0
    /\ m_stepsIdx <= Len(m_steps)
    /\ \A f \in 1..Len(frames) : frames[f].cursor <= Len(frames[f].steps)

\* in a later frame a buffer draw was appended behind the entries of the
\* frame before while the cursor is still among them
C36_Witness ==
    /\ Len(frames) >= 1
    /\ lastOp.kind = "drawVB" /\ lastOp.effective
    /\ Len(frames[Len(frames)].steps) >= 2
    /\ Len(m_steps) >= 3
    /\ m_stepsIdx = 1

----------------------------------------------------------------------------
\* the index pairs of a strip of n vertices whose first vertex has index base
StripPairs(base, n) == [j \in 1..(2 * (n - 1)) |-> base + (j \div 2)]

\* C37: when a LineStrip draw of n vertices is merged into the batch that a
\* LineStrip draw of m vertices began, the index buffer holds the m-1 pairs
\* of the first strip and the n-1 pairs of the second, (m-1)+(n-1) pairs in
\* all, and no pair joins the last vertex of the first strip with the first
\* vertex of the second.
C37_MergedStripsStaySeparate ==
    [][(/\ RawDraw(lastOp) /\ lastOp.call.type = "LineStrip"
        /\ lastOp.base = 0 /\ lastOp.baseElements = 0
        /\ RawDraw(lastOp') /\ lastOp'.call.type = "LineStrip"
        /\ ~lastOp'.split)
        => LET m == lastOp.call.vertexCount
               n == lastOp'.call.vertexCount
               el == m_currentStep'.elements
           IN  /\ Len(el) = 2 * ((m - 1) + (n - 1))
               /\ el = StripPairs(0, m) \o StripPairs(m, n)
               /\ ~\E k \in 1..(Len(el) \div 2) :
                      el[2 * k - 1] = m - 1 /\ el[2 * k] = m]_vars

\* two LineStrip draws of three vertices each are in one batch, as two strips
C37_Witness ==
    /\ RawDraw(lastOp)
    /\ lastOp.call.type = "LineStrip"
    /\ lastOp.call.vertexCount = 3
    /\ ~lastOp.split
    /\ lastOp.base = 3
    /\ m_currentStep.elements = <<0, 1, 1, 2, 3, 4, 4, 5>>

----------------------------------------------------------------------------
\* RenderTargetImpl::getUniqueId, called by initialize() on several threads.

IdStaysTheSame(id) == id

\* id++ on the static counter, which has 64 bits: MaxTargets calls are far
\* from wrapping it
NextId(id) == id + 1

\* how many targets have asked for an id or got one
Initializing ==
    Len(idgen.returned) + Cardinality({t \in Threads : idgen.pc[t] # "idle"})

\* RenderTarget::initialize() on thread t reaches the call of getUniqueId()
Initialize(t) ==
    /\ idgen.pc[t] = "idle"
    /\ Initializing < MaxTargets
    /\ idgen' = [idgen EXCEPT !.pc[t] = "getUniqueId"]
    /\ UNCHANGED <<threadVars, targetVars, contextRenderTargetMap, shader, text, vertexBuffer>>

\* the lock_guard of getUniqueId() takes the mutex
GetUniqueIdLocks(t) ==
    /\ idgen.pc[t] = "getUniqueId"
    /\ mutex = 0
    /\ mutex' = t
    /\ idgen' = [idgen EXCEPT !.pc[t] = "locked"]
    /\ UNCHANGED <<threads, targetVars, contextRenderTargetMap, shader, text, vertexBuffer>>

\* return id++; the lock is released and the value becomes the target's m_id
GetUniqueIdReturns(t) ==
    /\ idgen.pc[t] = "locked"
    /\ mutex = t
    /\ mutex' = 0
    /\ idgen' = [idgen EXCEPT !.pc[t] = "idle",
                              !.id = NextId(@),
                              !.returned = Append(@, [thread |-> t, id |-> idgen.id])]
    /\ UNCHANGED <<threads, targetVars, contextRenderTargetMap, shader, text, vertexBuffer>>

\* SpecIds: two threads initialize up to MaxTargets targets between them
NextIds ==
    \/ \E t \in Threads : Initialize(t)
    \/ \E t \in Threads : GetUniqueIdLocks(t)
    \/ \E t \in Threads : GetUniqueIdReturns(t)

SpecIds == Init /\ [][NextIds]_vars

\* C38: getUniqueId returns 1, 2, 3, ... in the order of its returns, on
\* whatever threads the targets are initialized: no id is zero and no two
\* initialized targets have the same id.
C38_UniqueNonZeroIds ==
    /\ \A k \in 1..Len(idgen.returned) : idgen.returned[k].id = k
    /\ \A k \in 1..Len(idgen.returned) : idgen.returned[k].id # 0
    /\ \A j \in 1..Len(idgen.returned), k \in 1..Len(idgen.returned) :
          j # k => idgen.returned[j].id # idgen.returned[k].id

\* both threads have initialized targets, one of them is waiting for the
\* lock while the other is inside getUniqueId
C38_Witness ==
    /\ Len(idgen.returned) >= 3
    /\ \E j \in 1..Len(idgen.returned), k \in 1..Len(idgen.returned) :
          idgen.returned[j].thread # idgen.returned[k].thread
    /\ \E a \in Threads, b \in Threads :
          idgen.pc[a] = "locked" /\ idgen.pc[b] = "getUniqueId"

----------------------------------------------------------------------------
\* C39: setActive(false) on a target that is not the one registered as
\* active in the current context leaves the registry as it is, so the target
\* that was active in the context is still active afterwards.
C39_DeactivatingInactiveTarget ==
    [][(/\ lastOp'.kind = "setActive"
        /\ ~lastOp'.call.active
        /\ ~isActive(contextRenderTargetMap, lastOp'.call.target))
        => /\ contextRenderTargetMap' = contextRenderTargetMap
           /\ \A u \in Targets :
                 isActive(contextRenderTargetMap, u)
                     => isActive(contextRenderTargetMap', u)]_vars

----------------------------------------------------------------------------
\* sf::VertexBuffer: create and update.

\* the GL buffer name glGenBuffers gives the buffer
BufferName == 201

\* VertexBuffer::create(vertexCount): a GL buffer is generated if there is
\* none (genOk: glGenBuffers gave a name); without one the call fails,
\* otherwise the store is allocated and m_size is vertexCount
create(vb, vertexCount, genOk) ==
    LET m_buffer == IF vb.m_buffer = 0 /\ genOk THEN BufferName ELSE vb.m_buffer
    IN  IF m_buffer = 0
        THEN [vb EXCEPT !.returned = FALSE]
        ELSE [vb EXCEPT !.m_buffer = m_buffer, !.m_size = vertexCount,
                        !.returned = TRUE]

\* VertexBuffer::update(vertices, vertexCount, offset): the three sanity
\* checks, the resize when vertexCount >= m_size, the copy.  The sum is taken
\* in std::size_t; the counts and offsets here stay far below its range.
update(vb, isNull, vertexCount, offset) ==
    IF vb.m_buffer = 0 THEN [vb EXCEPT !.returned = FALSE]
    ELSE IF isNull THEN [vb EXCEPT !.returned = FALSE]
    ELSE IF offset # 0 /\ offset + vertexCount > vb.m_size
    THEN [vb EXCEPT !.returned = FALSE]
    ELSE IF vertexCount >= vb.m_size
    THEN [vb EXCEPT !.m_size = vertexCount, !.returned = TRUE]
    ELSE [vb EXCEPT !.returned = TRUE]

\* create(vertexCount)
Create(vertexCount, genOk) ==
    /\ vertexBuffer.ops < MaxBufferOps
    /\ vertexBuffer' =
          [create(vertexBuffer, vertexCount, genOk) EXCEPT
              !.ops = @ + 1,
              !.call = [kind |-> "create", vertexCount |-> vertexCount]]
    /\ UNCHANGED <<threadVars, targetVars, contextRenderTargetMap, shader, text, idgen>>

\* update(vertices, vertexCount, offset)
Update(isNull, vertexCount, offset) ==
    /\ vertexBuffer.ops < MaxBufferOps
    /\ vertexBuffer' =
          [update(vertexBuffer, isNull, vertexCount, offset) EXCEPT
              !.ops = @ + 1,
              !.call = [kind |-> "update", isNull |-> isNull,
                        vertexCount |-> vertexCount, offset |-> offset]]
    /\ UNCHANGED <<threadVars, targetVars, contextRenderTargetMap, shader, text, idgen>>

\* SpecVertexBuffer: up to MaxBufferOps creates and updates of one buffer
NextVertexBuffer ==
    \/ \E n \in 0..MaxVertices, genOk \in BOOLEAN : Create(n, genOk)
    \/ \E isNull \in BOOLEAN, n \in 0..MaxVertices, offset \in 0..MaxVertices :
          Update(isNull, n, offset)

SpecVertexBuffer == Init /\ [][NextVertexBuffer]_vars

\* C40: update(vertices, count, offset) returns false and leaves the size of
\* the buffer as it is when the buffer has no GPU handle, when vertices is
\* null or when offset + count exceeds the size; and when it returns true the
\* size afterwards is at least offset + count.
C40_UpdateChecksRange ==
    [][(vertexBuffer'.ops = vertexBuffer.ops + 1 /\ vertexBuffer'.call.kind = "update")
        => LET c == vertexBuffer'.call
               rejected == \/ vertexBuffer.m_buffer = 0
                           \/ c.isNull
                           \/ c.offset + c.vertexCount > vertexBuffer.m_size
           IN  /\ rejected => /\ ~vertexBuffer'.returned
                              /\ vertexBuffer'.m_size = vertexBuffer.m_size
               /\ vertexBuffer'.returned
                     => vertexBuffer'.m_size >= c.offset + c.vertexCount]_vars

====
